---------------------------- MODULE Spec2Model ----------------------------
(***************************************************************************)
(* Model of src/src/main.rs: parallel_mine, a bounded brute-force nonce    *)
(* search split over num_cores threads that share an AtomicBool            *)
(* (found_flag) and a Mutex<Option<u64>> (solution).                       *)
(*                                                                         *)
(* Scaling.  u64::MAX is represented by the state variable u64_MAX, drawn  *)
(* in Init from 1..MaxU64, so that max_nonce = u64::MAX / num_cores takes  *)
(* every small value.  validate() is a SHA-256 comparison; a puzzle is     *)
(* represented by the set of nonces whose digest is below the difficulty,  *)
(* which is all that parallel_mine observes of it.                         *)
(***************************************************************************)
EXTENDS Integers, Naturals, Sequences, FiniteSets, TLC

(* ------------------------------ bounds -------------------------------- *)
\* largest stand-in for u64::MAX in the concurrent specifications
MaxU64 == 9
\* largest num_cpus::get() in the concurrent specifications
MaxCores == 3
\* most nonces of 0..u64_MAX that solve a puzzle
MaxValid == 2
\* largest stand-in for u64::MAX and largest core count for the partition runs
MaxU64Part == 24
\* largest stand-in for u64::MAX in the runs under fair scheduling
MaxU64Live == 7
MaxCoresPart == 5

VARIABLES
    u64_MAX,          \* u64::MAX (scaled)
    num_cores,        \* num_cpus::get()                          (line 97)
    puzzle,           \* the nonces n with validate(&puzzle, n) = true
    cpc,              \* parallel_mine's position
    max_nonce,        \* line 101
    range_per_thread, \* line 102
    handles,          \* number of JoinHandles pushed             (line 146)
    joined,           \* number of handles joined                 (line 151)
    ret,              \* value returned by parallel_mine          (line 156)
    found_flag,       \* AtomicBool                               (line 105)
    solution,         \* the Option<u64> inside the Mutex         (line 107)
    mutex_owner,      \* thread holding the MutexGuard, or NoOwner
    poisoned,         \* the Mutex's poison flag
    pc,               \* per thread: position in the closure (lines 125-144)
    start,            \* per thread: line 117
    end,              \* per thread: lines 118-122
    nonce,            \* per thread: loop variable of line 126
    wstate,           \* per thread: Worker Task state of the design
    slot_writes,      \* history: the values stored by line 137, in order
    lock_order,       \* history: threads in the order they acquired the lock
    evaluated,        \* history: per thread, the nonces passed to validate
    flag_reads,       \* history: per thread, each load of line 128 as
                      \*   [seen |-> value loaded, stored |-> found_flag then]
    late_evals,       \* history: per thread, the nonces passed to validate
                      \*   while found_flag was already true
    flag_stores       \* history: each store of line 139 as
                      \*   [by |-> thread, owner |-> mutex_owner then]

coordVars == <<cpc, max_nonce, range_per_thread, handles, joined, ret>>
sharedVars == <<found_flag, solution, mutex_owner, poisoned>>
threadVars == <<pc, start, end, nonce, wstate>>
inputVars == <<u64_MAX, num_cores, puzzle>>
historyVars == <<slot_writes, lock_order, evaluated, flag_reads, late_evals,
                 flag_stores>>
vars == <<inputVars, coordVars, sharedVars, threadVars, historyVars>>

(* ------------------------- data representation ------------------------ *)
\* Option<u64>: None is the empty sequence, Some(n) is <<n>>
None == << >>
Some(n) == <<n>>

\* no thread holds the MutexGuard
NoOwner == -1

Threads == 0 .. (MaxCores - 1)
ThreadsPart == 0 .. (MaxCoresPart - 1)

\* Option::is_none (line 136)
is_none(sol) == sol = None

\* mutant: unwrap_or_default, which yields 0 for None
unwrap_or_default(sol, default) == IF sol = None THEN 0 ELSE sol[1]

\* Option::unwrap_or (line 156)
unwrap_or(sol, default) == IF sol = None THEN default ELSE sol[1]

\* mutant: the comparison of line 73 inverted (>= for <)
validate_inverted(p, n) == n \notin p

\* validate (lines 64-74), through the puzzle's set of solving nonces
validate(p, n) == n \in p

\* u64 multiplication, wrapping at the word size (lines 117, 121)
wrapping_mul(a, b, umax) == (a * b) % (umax + 1)

\* mutant: the range starts one past its first nonce
RangeStartSkipsFirst(i, rpt, umax) == wrapping_mul(i, rpt, umax) + 1

\* line 117
RangeStart(i, rpt, umax) == wrapping_mul(i, rpt, umax)

\* mutant: every thread gets (i + 1) * range_per_thread, the remainder of
\* the division is dropped
RangeEndNoRemainder(i, cores, rpt, maxn, umax) == wrapping_mul(i + 1, rpt, umax)

\* mutant: the last thread stops one short of max_nonce
RangeEndExcludesLast(i, cores, rpt, maxn, umax) ==
    IF i = cores - 1 THEN maxn - 1 ELSE wrapping_mul(i + 1, rpt, umax)

\* mutant: the range is closed, start..=end
RangeEndInclusive(i, cores, rpt, maxn, umax) ==
    (IF i = cores - 1 THEN maxn ELSE wrapping_mul(i + 1, rpt, umax)) + 1

\* lines 118-122
RangeEnd(i, cores, rpt, maxn, umax) ==
    IF i = cores - 1 THEN maxn ELSE wrapping_mul(i + 1, rpt, umax)

\* mutant: no mutual exclusion, lock() never waits
LockAlwaysAvailable(owner) == TRUE

\* Mutex::lock blocks while another thread holds the guard (lines 135, 155)
LockAvailable(owner) == owner = NoOwner

\* mutant: the PoisonError is ignored (unwrap_or_else(|e| e.into_inner()))
PoisonIgnored(p) == FALSE

\* LockResult::unwrap (lines 135, 155): lock() returns Err on a poisoned mutex
LockFails(p) == p

\* AtomicBool::load(Ordering::Relaxed) (line 128): nothing orders the load
\* after the store of line 139, so it yields the stored value or the initial
\* one
RelaxedLoad(flag) == IF flag THEN {TRUE, FALSE} ELSE {FALSE}

\* the half-open range start..end as a set
Range(s, e) == {n \in 0 .. (e - 1) : n >= s}

(* ------------------------------ Init ---------------------------------- *)
\* the puzzles with at most k solving nonces in 0..umax
Puzzles(umax, k) ==
    IF k = 0 THEN {{}} ELSE {p \in SUBSET (0 .. umax) : Cardinality(p) <= k}

InitState(maxU, maxC, thr, maxV) ==
    /\ u64_MAX \in 1 .. maxU
    /\ num_cores \in 0 .. maxC
    /\ puzzle \in Puzzles(u64_MAX, maxV)
    /\ cpc = "setup"
    /\ max_nonce = 0
    /\ range_per_thread = 0
    /\ handles = 0
    /\ joined = 0
    /\ ret = 0
    /\ found_flag = FALSE
    /\ solution = None
    /\ mutex_owner = NoOwner
    /\ poisoned = FALSE
    /\ pc = [t \in thr |-> "unspawned"]
    /\ start = [t \in thr |-> 0]
    /\ end = [t \in thr |-> 0]
    /\ nonce = [t \in thr |-> 0]
    /\ wstate = [t \in thr |-> "Unspawned"]
    /\ slot_writes = << >>
    /\ lock_order = << >>
    /\ evaluated = [t \in thr |-> << >>]
    /\ flag_reads = [t \in thr |-> << >>]
    /\ late_evals = [t \in thr |-> << >>]
    /\ flag_stores = << >>

Init == InitState(MaxU64, MaxCores, Threads, MaxValid)

(* --------------------------- parallel_mine ---------------------------- *)
\* mutant: the division of line 102 is missing, every thread gets max_nonce
CoordSetupNoSplit ==
    /\ cpc = "setup"
    /\ IF num_cores = 0
       THEN /\ cpc' = "panicked"
            /\ UNCHANGED <<max_nonce, range_per_thread>>
       ELSE /\ max_nonce' = u64_MAX \div num_cores
            /\ range_per_thread' = u64_MAX \div num_cores
            /\ cpc' = "spawn"
    /\ UNCHANGED <<handles, joined, ret>>
    /\ UNCHANGED <<inputVars, sharedVars, threadVars, historyVars>>

\* mutant: a zero core count is not rejected (checked_div(..).unwrap_or(0))
CoordSetupNoReject ==
    /\ cpc = "setup"
    /\ max_nonce' = IF num_cores = 0 THEN 0 ELSE u64_MAX \div num_cores
    /\ range_per_thread' = IF num_cores = 0 THEN 0
                           ELSE (u64_MAX \div num_cores) \div num_cores
    /\ cpc' = "spawn"
    /\ UNCHANGED <<handles, joined, ret>>
    /\ UNCHANGED <<inputVars, sharedVars, threadVars, historyVars>>

\* lines 96-109: the divisions of lines 101-102 panic when num_cores = 0,
\* before found_flag and solution are created
CoordSetup ==
    /\ cpc = "setup"
    /\ IF num_cores = 0
       THEN /\ cpc' = "panicked"
            /\ UNCHANGED <<max_nonce, range_per_thread>>
       ELSE /\ max_nonce' = u64_MAX \div num_cores
            /\ range_per_thread' = (u64_MAX \div num_cores) \div num_cores
            /\ cpc' = "spawn"
    /\ UNCHANGED <<handles, joined, ret>>
    /\ UNCHANGED <<inputVars, sharedVars, threadVars, historyVars>>

\* lines 111-147: one iteration of the spawning loop, i = handles.
\* thread::spawn (line 125) either starts the thread or, when the operating
\* system refuses it, panics: parallel_mine then unwinds inside the loop,
\* the handles pushed so far are dropped, which detaches their threads, and
\* nothing is joined or returned.
CoordSpawn ==
    /\ cpc = "spawn"
    /\ IF handles < num_cores
       THEN \/ /\ start' = [start EXCEPT ![handles] =
                               RangeStart(handles, range_per_thread, u64_MAX)]
               /\ end' = [end EXCEPT ![handles] =
                               RangeEnd(handles, num_cores, range_per_thread,
                                        max_nonce, u64_MAX)]
               /\ nonce' = [nonce EXCEPT ![handles] =
                               RangeStart(handles, range_per_thread, u64_MAX)]
               /\ pc' = [pc EXCEPT ![handles] = "loop"]
               /\ wstate' = [wstate EXCEPT ![handles] = "Scanning"]
               /\ handles' = handles + 1
               /\ cpc' = cpc
            \/ /\ cpc' = "panicked"
               /\ UNCHANGED <<handles, threadVars>>
       ELSE /\ cpc' = "join"
            /\ UNCHANGED <<handles, threadVars>>
    /\ UNCHANGED <<max_nonce, range_per_thread, joined, ret>>
    /\ UNCHANGED <<inputVars, sharedVars, historyVars>>

\* mutant: the handles are dropped without waiting (threads detached)
CoordJoinNoWait ==
    /\ cpc = "join"
    /\ IF joined < handles
       THEN /\ joined' = joined + 1
            /\ cpc' = cpc
       ELSE /\ cpc' = "read"
            /\ joined' = joined
    /\ UNCHANGED <<max_nonce, range_per_thread, handles, ret>>
    /\ UNCHANGED <<inputVars, sharedVars, threadVars, historyVars>>

\* lines 150-152: join the next handle; the Result of join is discarded
CoordJoin ==
    /\ cpc = "join"
    /\ IF joined < handles
       THEN /\ pc[joined] = "done"
            /\ joined' = joined + 1
            /\ cpc' = cpc
       ELSE /\ cpc' = "read"
            /\ joined' = joined
    /\ UNCHANGED <<max_nonce, range_per_thread, handles, ret>>
    /\ UNCHANGED <<inputVars, sharedVars, threadVars, historyVars>>

\* lines 155-156: lock().unwrap() panics on a poisoned mutex
CoordReturn ==
    /\ cpc = "read"
    /\ LockAvailable(mutex_owner)
    /\ IF LockFails(poisoned)
       THEN /\ cpc' = "panicked"
            /\ ret' = ret
       ELSE /\ cpc' = "returned"
            /\ ret' = unwrap_or(solution, u64_MAX)
    /\ UNCHANGED <<max_nonce, range_per_thread, handles, joined>>
    /\ UNCHANGED <<inputVars, sharedVars, threadVars, historyVars>>

(* ------------------------- the spawned closure ------------------------ *)
Finish(t, s) ==
    /\ pc' = [pc EXCEPT ![t] = "done"]
    /\ wstate' = [wstate EXCEPT ![t] = s]

\* mutant: the flag is loaded but the return of line 129 is missing
WLoadNoReturn(t) ==
    /\ pc[t] = "loop"
    /\ IF nonce[t] >= end[t]
       THEN /\ Finish(t, "Exhausted")
            /\ flag_reads' = flag_reads
       ELSE \E seen \in RelaxedLoad(found_flag) :
                /\ flag_reads' = [flag_reads EXCEPT ![t] =
                        Append(@, [seen |-> seen, stored |-> found_flag])]
                /\ pc' = [pc EXCEPT ![t] = "validate"]
                /\ wstate' = wstate
    /\ UNCHANGED <<start, end, nonce>>
    /\ UNCHANGED <<slot_writes, lock_order, evaluated, late_evals, flag_stores>>
    /\ UNCHANGED <<inputVars, coordVars, sharedVars>>

\* mutant: the poll of found_flag is missing from the loop body
WLoadNoPoll(t) ==
    /\ pc[t] = "loop"
    /\ IF nonce[t] >= end[t]
       THEN Finish(t, "Exhausted")
       ELSE /\ pc' = [pc EXCEPT ![t] = "validate"]
            /\ wstate' = wstate
    /\ UNCHANGED <<start, end, nonce>>
    /\ UNCHANGED <<inputVars, coordVars, sharedVars, historyVars>>

\* lines 126-130: take the next nonce of start..end, then poll found_flag
WLoad(t) ==
    /\ pc[t] = "loop"
    /\ IF nonce[t] >= end[t]
       THEN /\ Finish(t, "Exhausted")
            /\ flag_reads' = flag_reads
       ELSE \E seen \in RelaxedLoad(found_flag) :
                /\ flag_reads' = [flag_reads EXCEPT ![t] =
                        Append(@, [seen |-> seen, stored |-> found_flag])]
                /\ IF seen
                   THEN Finish(t, "Cancelled")
                   ELSE /\ pc' = [pc EXCEPT ![t] = "validate"]
                        /\ wstate' = wstate
    /\ UNCHANGED <<start, end, nonce>>
    /\ UNCHANGED <<slot_writes, lock_order, evaluated, late_evals, flag_stores>>
    /\ UNCHANGED <<inputVars, coordVars, sharedVars>>

\* mutant: the flag is stored right after the match, before the lock is
\* taken and the slot written
WValidateSignalsEarly(t) ==
    /\ pc[t] = "validate"
    /\ evaluated' = [evaluated EXCEPT ![t] = Append(@, nonce[t])]
    /\ late_evals' = [late_evals EXCEPT ![t] =
                         IF found_flag THEN Append(@, nonce[t]) ELSE @]
    /\ IF validate(puzzle, nonce[t])
       THEN /\ pc' = [pc EXCEPT ![t] = "lock"]
            /\ nonce' = nonce
            /\ found_flag' = TRUE
       ELSE /\ pc' = [pc EXCEPT ![t] = "loop"]
            /\ nonce' = [nonce EXCEPT ![t] = @ + 1]
            /\ found_flag' = found_flag
    /\ UNCHANGED <<start, end, wstate, slot_writes, lock_order>>
    /\ UNCHANGED <<flag_reads, flag_stores>>
    /\ UNCHANGED <<solution, mutex_owner, poisoned>>
    /\ UNCHANGED <<inputVars, coordVars>>

\* mutant: the scan advances by two (step_by(2))
WValidateStepsTwo(t) ==
    /\ pc[t] = "validate"
    /\ evaluated' = [evaluated EXCEPT ![t] = Append(@, nonce[t])]
    /\ late_evals' = [late_evals EXCEPT ![t] =
                         IF found_flag THEN Append(@, nonce[t]) ELSE @]
    /\ IF validate(puzzle, nonce[t])
       THEN /\ pc' = [pc EXCEPT ![t] = "lock"]
            /\ nonce' = nonce
       ELSE /\ pc' = [pc EXCEPT ![t] = "loop"]
            /\ nonce' = [nonce EXCEPT ![t] = @ + 2]
    /\ UNCHANGED <<start, end, wstate, slot_writes, lock_order>>
    /\ UNCHANGED <<flag_reads, flag_stores>>
    /\ UNCHANGED <<inputVars, coordVars, sharedVars>>

\* line 133
WValidate(t) ==
    /\ pc[t] = "validate"
    /\ evaluated' = [evaluated EXCEPT ![t] = Append(@, nonce[t])]
    /\ late_evals' = [late_evals EXCEPT ![t] =
                         IF found_flag THEN Append(@, nonce[t]) ELSE @]
    /\ IF validate(puzzle, nonce[t])
       THEN /\ pc' = [pc EXCEPT ![t] = "lock"]
            /\ nonce' = nonce
       ELSE /\ pc' = [pc EXCEPT ![t] = "loop"]
            /\ nonce' = [nonce EXCEPT ![t] = @ + 1]
    /\ UNCHANGED <<start, end, wstate, slot_writes, lock_order>>
    /\ UNCHANGED <<flag_reads, flag_stores>>
    /\ UNCHANGED <<inputVars, coordVars, sharedVars>>

\* line 135: lock().unwrap()
WLock(t) ==
    /\ pc[t] = "lock"
    /\ LockAvailable(mutex_owner)
    /\ IF LockFails(poisoned)
       THEN /\ Finish(t, "Panicked")
            /\ UNCHANGED <<mutex_owner, lock_order>>
       ELSE /\ mutex_owner' = t
            /\ lock_order' = Append(lock_order, t)
            /\ pc' = [pc EXCEPT ![t] = "is_none"]
            /\ wstate' = wstate
    /\ UNCHANGED <<start, end, nonce, slot_writes, evaluated>>
    /\ UNCHANGED <<flag_reads, late_evals, flag_stores>>
    /\ UNCHANGED <<found_flag, solution, poisoned>>
    /\ UNCHANGED <<inputVars, coordVars>>

\* mutant: the is_none test is missing, every match is written
WIsNoneAlwaysWrite(t) ==
    /\ pc[t] = "is_none"
    /\ pc' = [pc EXCEPT ![t] = "write"]
    /\ UNCHANGED <<start, end, nonce, wstate>>
    /\ UNCHANGED <<inputVars, coordVars, sharedVars, historyVars>>

\* mutant: the store of line 139 is placed after the if, so that a thread
\* that finds the slot occupied stores the flag too
WIsNoneStoreAlways(t) ==
    /\ pc[t] = "is_none"
    /\ pc' = [pc EXCEPT ![t] = IF is_none(solution) THEN "write" ELSE "store"]
    /\ UNCHANGED <<start, end, nonce, wstate>>
    /\ UNCHANGED <<inputVars, coordVars, sharedVars, historyVars>>

\* mutant: a smaller nonce replaces the stored one (smallest value wins)
WIsNoneOrSmaller(t) ==
    /\ pc[t] = "is_none"
    /\ pc' = [pc EXCEPT ![t] =
                 IF is_none(solution) \/ nonce[t] < solution[1]
                 THEN "write" ELSE "return"]
    /\ UNCHANGED <<start, end, nonce, wstate>>
    /\ UNCHANGED <<inputVars, coordVars, sharedVars, historyVars>>

\* line 136
WIsNone(t) ==
    /\ pc[t] = "is_none"
    /\ pc' = [pc EXCEPT ![t] = IF is_none(solution) THEN "write" ELSE "return"]
    /\ UNCHANGED <<start, end, nonce, wstate>>
    /\ UNCHANGED <<inputVars, coordVars, sharedVars, historyVars>>

\* line 137
WWrite(t) ==
    /\ pc[t] = "write"
    /\ solution' = Some(nonce[t])
    /\ slot_writes' = Append(slot_writes, nonce[t])
    /\ pc' = [pc EXCEPT ![t] = "store"]
    /\ wstate' = [wstate EXCEPT ![t] = "Found"]
    /\ UNCHANGED <<start, end, nonce, lock_order, evaluated>>
    /\ UNCHANGED <<flag_reads, late_evals, flag_stores>>
    /\ UNCHANGED <<found_flag, mutex_owner, poisoned>>
    /\ UNCHANGED <<inputVars, coordVars>>

\* line 139
WStore(t) ==
    /\ pc[t] = "store"
    /\ found_flag' = TRUE
    /\ flag_stores' = Append(flag_stores, [by |-> t, owner |-> mutex_owner])
    /\ pc' = [pc EXCEPT ![t] = "return"]
    /\ UNCHANGED <<start, end, nonce, wstate>>
    /\ UNCHANGED <<solution, mutex_owner, poisoned>>
    /\ UNCHANGED <<slot_writes, lock_order, evaluated, flag_reads, late_evals>>
    /\ UNCHANGED <<inputVars, coordVars>>

\* mutant: the guard is leaked (mem::forget), the mutex stays locked
WReturnKeepsLock(t) ==
    /\ pc[t] = "return"
    /\ Finish(t, IF wstate[t] = "Found" THEN "Found" ELSE "LostRace")
    /\ UNCHANGED <<start, end, nonce>>
    /\ UNCHANGED <<found_flag, solution, mutex_owner, poisoned>>
    /\ UNCHANGED <<inputVars, coordVars, historyVars>>

\* line 141: return; the MutexGuard sol is dropped, which unlocks
WReturn(t) ==
    /\ pc[t] = "return"
    /\ mutex_owner' = IF mutex_owner = t THEN NoOwner ELSE mutex_owner
    /\ Finish(t, IF wstate[t] = "Found" THEN "Found" ELSE "LostRace")
    /\ UNCHANGED <<start, end, nonce>>
    /\ UNCHANGED <<found_flag, solution, poisoned>>
    /\ UNCHANGED <<inputVars, coordVars, historyVars>>

Worker(t) ==
    \/ WLoad(t)
    \/ WValidate(t)
    \/ WLock(t)
    \/ WIsNone(t)
    \/ WWrite(t)
    \/ WStore(t)
    \/ WReturn(t)

Coordinator ==
    \/ CoordSetup
    \/ CoordSpawn
    \/ CoordJoin
    \/ CoordReturn

Next ==
    \/ Coordinator
    \/ \E t \in Threads : Worker(t)

Spec == Init /\ [][Next]_vars

(* ------------------------- other specifications ----------------------- *)
\* The threads are scheduled by the operating system and the coordinator
\* runs on the calling thread: each keeps taking steps while it can.
InitLive == InitState(MaxU64Live, MaxCores, Threads, MaxValid)

LiveSpec ==
    /\ InitLive
    /\ [][Next]_vars
    /\ WF_vars(Coordinator)
    /\ \A t \in Threads : WF_vars(Worker(t))

\* The partitioning alone (lines 97-122), over a larger space of
\* num_cores and u64::MAX, with the threads never scheduled.
InitPart == InitState(MaxU64Part, MaxCoresPart, ThreadsPart, 0)

NextPart ==
    \/ CoordSetup
    \/ CoordSpawn

SpecPart == InitPart /\ [][NextPart]_vars

\* A thread unwinds from a panic raised inside validate (line 133), where
\* it holds no guard.
WPanicValidate(t) ==
    /\ pc[t] = "validate"
    /\ Finish(t, "Panicked")
    /\ UNCHANGED <<start, end, nonce>>
    /\ UNCHANGED <<inputVars, coordVars, sharedVars, historyVars>>

\* A thread unwinds from a panic raised while it holds the MutexGuard
\* (lines 135-141): dropping the guard during unwinding poisons the mutex
\* and unlocks it.
WPanicLocked(t) ==
    /\ pc[t] \in {"is_none", "write", "store", "return"}
    /\ mutex_owner = t
    /\ poisoned' = TRUE
    /\ mutex_owner' = NoOwner
    /\ Finish(t, "Panicked")
    /\ UNCHANGED <<start, end, nonce>>
    /\ UNCHANGED <<found_flag, solution>>
    /\ UNCHANGED <<inputVars, coordVars, historyVars>>

NextPanic ==
    \/ Next
    \/ \E t \in Threads : WPanicValidate(t)
    \/ \E t \in Threads : WPanicLocked(t)

SpecPanic == Init /\ [][NextPanic]_vars

(* ------------------------------ properties ---------------------------- *)
\* the candidates [0, N) of a run, once max_nonce is computed
SearchSpace == Range(0, max_nonce)

\* the solving nonces inside the search space
Solutions == puzzle \cap SearchSpace

\* the threads the run is to spawn, i in 0..num_cores
Spawned == {t \in DOMAIN pc : t < num_cores}

TerminalStates == {"Found", "LostRace", "Exhausted", "Cancelled", "Panicked"}

\* C1 (soundness): when parallel_mine returns and the Result Slot was
\* occupied when it was read, the returned value solves the puzzle.
C1_Soundness ==
    (cpc = "returned" /\ solution # None) => ret \in puzzle

\* two threads raced for the slot and the coordinator returned a candidate
C1_Witness ==
    /\ cpc = "returned"
    /\ solution # None
    /\ ret \in puzzle
    /\ Len(lock_order) >= 2

\* C2 (completeness within the bound): with at least one thread and a
\* solving nonce in [0, N), parallel_mine returns a solving nonce of [0, N),
\* hence not the sentinel, whatever the threads' interleaving.
C2_Completeness ==
    (cpc = "returned" /\ num_cores >= 1 /\ Solutions # {})
        => (solution # None /\ ret \in Solutions /\ ret # u64_MAX)

\* a run that returned a solution although one thread stopped on the flag
\* and another lost the race
C2_Witness ==
    /\ cpc = "returned"
    /\ ret \in Solutions
    /\ \E t \in Spawned : wstate[t] = "Cancelled"
    /\ \E t \in Spawned : wstate[t] = "LostRace"

\* C3 (negative completeness): with at least one thread and no solving
\* nonce in [0, N), the slot and the flag are never written and
\* parallel_mine returns the sentinel u64::MAX.
C3_NegativeCompleteness ==
    (num_cores >= 1 /\ cpc # "setup" /\ Solutions = {})
        => /\ solution = None
           /\ found_flag = FALSE
           /\ slot_writes = << >>
           /\ cpc = "returned" => ret = u64_MAX

\* several threads exhausted non-empty ranges, the puzzle has solving nonces
\* but none below max_nonce, and the sentinel was returned
C3_Witness ==
    /\ cpc = "returned"
    /\ num_cores >= 2
    /\ range_per_thread >= 1
    /\ puzzle # {}
    /\ Solutions = {}
    /\ ret = u64_MAX

\* C4 (single writer): the slot is written at most once, it holds the value
\* of that one write from then on, and it is written exactly once by the end
\* of a run whose search space holds a solving nonce.
C4_SingleWriter ==
    /\ Len(slot_writes) <= 1
    /\ (solution = None) <=> (slot_writes = << >>)
    /\ solution # None => solution = Some(slot_writes[1])
    /\ (cpc = "returned" /\ num_cores >= 1 /\ Solutions # {})
            => Len(slot_writes) = 1

\* two threads found solving nonces and took the lock in turn: one wrote,
\* the other found the slot occupied
C4_Witness ==
    /\ Len(lock_order) >= 2
    /\ Len(slot_writes) = 1
    /\ \E t \in Spawned : wstate[t] = "LostRace"
    /\ \E t \in Spawned : wstate[t] = "Found" /\ pc[t] = "done"

\* C5 (partition coverage): for N >= 1 and W >= 1, once the spawning loop
\* is over there are W ranges, thread i < W-1 has [i*chunk, (i+1)*chunk)
\* and thread W-1 has [(W-1)*chunk, N) with chunk = N / W, the ranges are
\* pairwise disjoint and their union is [0, N).
C5_PartitionCoverage ==
    (cpc = "join" /\ num_cores >= 1 /\ max_nonce >= 1)
        => /\ handles = num_cores
           /\ \A i \in Spawned :
                /\ pc[i] # "unspawned"
                /\ start[i] = i * (max_nonce \div num_cores)
                /\ end[i] = IF i = num_cores - 1 THEN max_nonce
                            ELSE (i + 1) * (max_nonce \div num_cores)
                /\ start[i] <= end[i]
           /\ \A i, j \in Spawned :
                i # j => Range(start[i], end[i]) \cap Range(start[j], end[j]) = {}
           /\ UNION {Range(start[i], end[i]) : i \in Spawned} = SearchSpace

\* three or more ranges were handed out for a bound the core count does not
\* divide
C5_Witness ==
    /\ cpc = "join"
    /\ num_cores >= 3
    /\ range_per_thread >= 1
    /\ max_nonce % num_cores # 0
    /\ handles = num_cores

\* C6 (last candidate): with W >= 1 and N >= 1, when the only solving nonce
\* is N - 1, parallel_mine returns N - 1.
C6_LastCandidate ==
    (cpc = "returned" /\ num_cores >= 1 /\ max_nonce >= 1
        /\ puzzle = {max_nonce - 1})
        => ret = max_nonce - 1

\* N - 1 was returned by a run of several threads whose bound the core
\* count does not divide
C6_Witness ==
    /\ cpc = "returned"
    /\ num_cores >= 2
    /\ range_per_thread >= 1
    /\ max_nonce % num_cores # 0
    /\ puzzle = {max_nonce - 1}
    /\ ret = max_nonce - 1

\* C7 as claimed (termination): under fair scheduling, a run never stops
\* before parallel_mine has returned or panicked, and with W >= 1 eventually
\* every thread of the run is in a terminal state, the mutex is free and
\* parallel_mine has returned.
C7_Termination ==
    /\ [](cpc \in {"returned", "panicked"} \/ ENABLED Next)
    /\ (num_cores >= 1) =>
          <>(/\ cpc = "returned"
             /\ mutex_owner = NoOwner
             /\ \A t \in Spawned : pc[t] = "done" /\ wstate[t] \in TerminalStates)

\* C7 as amended: under fair scheduling, a run never stops before
\* parallel_mine has returned or panicked; with W >= 1 parallel_mine panics
\* only inside the spawning loop, on a thread::spawn that failed, having
\* joined nothing and returned nothing; and with W >= 1 eventually either
\* every thread of the run is in a terminal state, the mutex is free and
\* parallel_mine has returned, or parallel_mine has panicked on such a
\* spawn.
C7_TerminationUnlessSpawnFails ==
    /\ [](cpc \in {"returned", "panicked"} \/ ENABLED Next)
    /\ []((cpc = "panicked" /\ num_cores >= 1) =>
            (handles < num_cores /\ joined = 0 /\ ret = 0
                /\ \A t \in Spawned : t >= handles => pc[t] = "unspawned"))
    /\ (num_cores >= 1) =>
          \/ <>(/\ cpc = "returned"
                /\ mutex_owner = NoOwner
                /\ \A t \in Spawned :
                      pc[t] = "done" /\ wstate[t] \in TerminalStates)
          \/ <>(cpc = "panicked" /\ handles < num_cores)

\* parallel_mine returned after two threads had queued for the lock
C7_Witness ==
    /\ cpc = "returned"
    /\ Len(lock_order) >= 2
    /\ mutex_owner = NoOwner
    /\ \A t \in Spawned : pc[t] = "done"

\* C8 (invalid configuration): with num_cores = 0 the run ends in a panic
\* of parallel_mine as its first step: no thread is spawned, no nonce is
\* evaluated, the slot and the flag keep their initial values and nothing is
\* returned.
C8_ZeroCoresRejected ==
    (num_cores = 0)
        => /\ cpc \in {"setup", "panicked"}
           /\ handles = 0
           /\ \A t \in DOMAIN pc :
                pc[t] = "unspawned" /\ evaluated[t] = << >>
           /\ solution = None
           /\ found_flag = FALSE
           /\ slot_writes = << >>
           /\ lock_order = << >>

\* the run with no cores has panicked
C8_Witness ==
    /\ num_cores = 0
    /\ cpc = "panicked"

\* C9 (first writer wins): the value returned is the nonce of the thread
\* that was first to acquire the lock after a match, whether or not a
\* smaller solving nonce exists.
C9_FirstLockerWins ==
    /\ solution # None =>
          /\ lock_order # << >>
          /\ solution = Some(nonce[lock_order[1]])
    /\ (cpc = "returned" /\ solution # None) => ret = nonce[lock_order[1]]

\* a run that returned a solving nonce although another thread's range holds
\* a smaller one
C9_Witness ==
    /\ cpc = "returned"
    /\ num_cores >= 2
    /\ ret \in Solutions
    /\ \E n \in Solutions : n < ret
    /\ \E t \in Spawned : wstate[t] = "LostRace" /\ nonce[t] < ret

\* C10 (worker failure outside the lock): when a thread has panicked in
\* validate, holding no guard, parallel_mine does not return a value.
C10_WorkerFailureIsFatal ==
    (\E t \in Spawned : wstate[t] = "Panicked" /\ pc[t] = "done" /\ ~poisoned)
        => cpc # "returned"

\* the elements of a sequence
Elems(q) == {q[k] : k \in 1 .. Len(q)}

\* C11 (lock poisoning): once a thread has panicked holding the guard, no
\* lock operation succeeds any more (the last thread to have acquired the
\* lock is the one that panicked, and nobody is inside the critical
\* section), and parallel_mine does not return: it panics at line 155.
C11_LockPoisoning ==
    poisoned =>
        /\ lock_order # << >>
        /\ wstate[lock_order[Len(lock_order)]] = "Panicked"
        /\ mutex_owner = NoOwner
        /\ \A t \in Spawned : pc[t] \notin {"is_none", "write", "store", "return"}
        /\ cpc \in {"spawn", "join", "read", "panicked"}
        /\ (\A t \in Spawned : pc[t] = "done") /\ joined = num_cores
              => cpc \in {"join", "read", "panicked"}

\* a thread panicked with the guard, a second thread's lock() then failed
\* and parallel_mine itself panicked on the poisoned mutex
C11_Witness ==
    /\ poisoned
    /\ cpc = "panicked"
    /\ \E t \in Spawned :
          wstate[t] = "Panicked" /\ t \notin Elems(lock_order)
                /\ evaluated[t] # << >>

\* C12 (the poll precedes every evaluation): a thread evaluates a nonce only
\* right after its own load of found_flag returned false, one load per
\* evaluation; a load that returns true is the thread's last step: it ends
\* Cancelled, having evaluated neither the current nonce nor a later one,
\* and it never locks the mutex, writes the slot or stores the flag.
C12_PollBeforeEvaluate ==
    \A t \in Spawned :
        LET r == flag_reads[t]
            n == Len(r)
            sawTrue == n > 0 /\ r[n].seen
        IN  /\ \A k \in 1 .. n : r[k].seen => k = n
            /\ pc[t] = "validate" => n > 0 /\ ~r[n].seen
            /\ Len(evaluated[t]) =
                   n - (IF pc[t] = "validate" \/ sawTrue THEN 1 ELSE 0)
            /\ (wstate[t] = "Cancelled") <=> sawTrue
            /\ sawTrue =>
                  /\ pc[t] = "done"
                  /\ \A e \in Elems(evaluated[t]) : e < nonce[t]
                  /\ nonce[t] < end[t]
                  /\ t \notin Elems(lock_order)
                  /\ nonce[t] \notin Elems(slot_writes)
                  /\ \A k \in 1 .. Len(flag_stores) : flag_stores[k].by # t

\* a thread evaluated a nonce after a load that returned false, then loaded
\* true and stopped with a nonce of its range left unevaluated
C12_Witness ==
    \E t \in Spawned :
        /\ wstate[t] = "Cancelled"
        /\ Len(evaluated[t]) >= 1
        /\ Len(flag_reads[t]) = Len(evaluated[t]) + 1
        /\ nonce[t] < end[t]

\* the loads of thread t that returned false although the flag was set
StaleReads(t) ==
    {k \in 1 .. Len(flag_reads[t]) :
        flag_reads[t][k].stored /\ ~flag_reads[t][k].seen}

\* C13 as claimed (bounded cancellation latency): once found_flag is set, a
\* thread evaluates at most one more nonce, the one whose preceding load
\* came before the store.
C13_AtMostOneLateEvaluation ==
    \A t \in Spawned : Len(late_evals[t]) <= 1

\* C13 as amended: once found_flag is set, a thread evaluates at most one
\* more nonce plus one for each of its later loads that still returned
\* false; after a load that returned true it evaluates nothing.
C13_LatencyBoundedByStaleReads ==
    \A t \in Spawned :
        /\ Len(late_evals[t]) <= 1 + Cardinality(StaleReads(t))
        /\ Len(late_evals[t]) + (IF pc[t] = "validate" THEN 1 ELSE 0)
               >= Cardinality(StaleReads(t))
        /\ \A k \in 1 .. Len(flag_reads[t]) :
               flag_reads[t][k].seen =>
                   /\ flag_reads[t][k].stored
                   /\ k = Len(flag_reads[t])
                   /\ pc[t] = "done"

\* a thread evaluated two nonces after the store, the second after a load
\* that returned the old value
C13_Witness ==
    \E t \in Spawned :
        /\ Len(late_evals[t]) >= 2
        /\ Cardinality(StaleReads(t)) >= 1
        /\ pc[t] = "done"

\* C14 (flag monotonicity): found_flag starts false and is true exactly when
\* a store has happened; there is at most one store per run, made by the
\* thread that wrote the slot, while it still holds the guard of the
\* critical section of that write, and there is exactly one once the writer
\* has left its critical section.
C14_FlagSetOnceByWriter ==
    /\ Len(flag_stores) <= 1
    /\ found_flag <=> (flag_stores # << >>)
    /\ \A k \in 1 .. Len(flag_stores) :
          LET w == flag_stores[k].by
          IN  /\ flag_stores[k].owner = w
              /\ wstate[w] = "Found"
              /\ slot_writes = <<nonce[w]>>
              /\ solution = Some(nonce[w])
              /\ Cardinality({j \in 1 .. Len(lock_order) : lock_order[j] = w}) = 1
    /\ \A t \in Spawned :
          (wstate[t] = "Found" /\ pc[t] \in {"return", "done"})
              => (Len(flag_stores) = 1 /\ flag_stores[1].by = t)
    /\ (cpc = "returned" /\ slot_writes # << >>) => Len(flag_stores) = 1

\* the run ended with the flag stored once although a second thread also
\* went through the critical section
C14_Witness ==
    /\ cpc = "returned"
    /\ found_flag
    /\ Len(flag_stores) = 1
    /\ Len(lock_order) >= 2

\* thread t found the slot occupied, or is about to: it holds or held the
\* guard without being the writer
LostRace(t) ==
    /\ t \in Elems(lock_order)
    /\ wstate[t] # "Found"
    /\ \/ pc[t] \in {"return", "done"}
       \/ pc[t] = "is_none" /\ solution # None

\* C15 (a lost race changes nothing): a thread that matched, took the lock
\* and found the slot occupied leaves the slot, the flag and the histories
\* of writes and stores as they are in each of its steps, goes on to drop
\* the guard and ends LostRace with its matching nonce as its last
\* evaluation.
C15_LostRaceChangesNothing ==
    /\ [](\A t \in Spawned :
            /\ LostRace(t) =>
                  /\ nonce[t] \in puzzle
                  /\ evaluated[t] # << >>
                  /\ evaluated[t][Len(evaluated[t])] = nonce[t]
                  /\ slot_writes # << >>
                  /\ nonce[t] \notin Elems(slot_writes)
                  /\ solution = Some(slot_writes[1])
                  /\ found_flag
                  /\ \A k \in 1 .. Len(flag_stores) : flag_stores[k].by # t
                  /\ pc[t] = "done" => wstate[t] = "LostRace" /\ mutex_owner # t
            /\ wstate[t] = "LostRace" => LostRace(t) /\ pc[t] = "done")
    /\ [][\A t \in Spawned :
            (LostRace(t) /\ pc'[t] # pc[t]) =>
                /\ pc'[t] \in {"return", "done"}
                /\ solution' = solution
                /\ found_flag' = found_flag
                /\ slot_writes' = slot_writes
                /\ flag_stores' = flag_stores
                /\ evaluated'[t] = evaluated[t]
                /\ nonce'[t] = nonce[t]]_vars

\* a thread ended LostRace after another thread's write, and the slot still
\* holds that other thread's nonce
C15_Witness ==
    \E t \in Spawned :
        /\ wstate[t] = "LostRace"
        /\ pc[t] = "done"
        /\ solution # None
        /\ solution # Some(nonce[t])
        /\ cpc = "returned"

\* C16 (join before read): when parallel_mine reads the slot, and from then
\* on, every thread of the run has been spawned, has ended and has been
\* joined, nobody holds the guard, and the value returned is the slot's
\* content (or u64::MAX for an empty slot), which can no longer change.
C16_JoinBeforeRead ==
    /\ cpc \in {"read", "returned"} =>
          /\ handles = num_cores
          /\ joined = handles
          /\ \A t \in Spawned :
                pc[t] = "done" /\ wstate[t] \in TerminalStates
          /\ mutex_owner = NoOwner
    /\ cpc = "returned" =>
          /\ ret = (IF solution = None THEN u64_MAX ELSE solution[1])
          /\ Elems(slot_writes) \subseteq {ret}

\* parallel_mine returned the slot's content after joining several threads,
\* one of which had written the slot
C16_Witness ==
    /\ cpc = "returned"
    /\ num_cores >= 2
    /\ joined = num_cores
    /\ solution = Some(ret)
    /\ \E t \in Spawned : wstate[t] = "Found"
    /\ \E t \in Spawned : wstate[t] = "Exhausted" /\ evaluated[t] # << >>

\* the nonces of thread t's range that it will never evaluate, once it has
\* ended
Skipped(t) ==
    IF pc[t] # "done" THEN {}
    ELSE IF wstate[t] = "Cancelled" THEN Range(nonce[t], end[t])
    ELSE Range(nonce[t] + 1, end[t])

\* C17 (no candidate is evaluated twice): the nonces a thread has passed to
\* validate are distinct nonces of its own range, in [0, N); no nonce has
\* been evaluated by two threads; and a nonce a thread has skipped by
\* stopping early has been evaluated by nobody.
C17_NoCandidateEvaluatedTwice ==
    /\ \A t \in Spawned :
          /\ \A j, k \in 1 .. Len(evaluated[t]) :
                j < k => evaluated[t][j] # evaluated[t][k]
          /\ Elems(evaluated[t]) \subseteq Range(start[t], end[t])
          /\ Elems(evaluated[t]) \subseteq SearchSpace
          /\ \A u \in Spawned : Skipped(t) \cap Elems(evaluated[u]) = {}
    /\ \A t, u \in Spawned :
          t # u => Elems(evaluated[t]) \cap Elems(evaluated[u]) = {}

\* the run is over, one thread stopped on the flag with nonces of its range
\* left, another one evaluated several nonces
C17_Witness ==
    /\ cpc = "returned"
    /\ \E t, u \in Spawned :
          /\ t # u
          /\ wstate[t] = "Cancelled"
          /\ Skipped(t) # {}
          /\ evaluated[t] # << >>
          /\ Len(evaluated[u]) >= 2

\* C18 (ascending scan, first match reported): every thread has evaluated
\* start, start + 1, ... in that order and nothing after a match; when the
\* slot is occupied its value is a solving nonce of the writer's range, and
\* every smaller nonce of that range was evaluated by the writer and does
\* not solve the puzzle.
C18_FirstMatchOfRange ==
    /\ \A t \in Spawned :
          /\ \A k \in 1 .. Len(evaluated[t]) :
                /\ evaluated[t][k] = start[t] + k - 1
                /\ k < Len(evaluated[t]) => evaluated[t][k] \notin puzzle
          /\ wstate[t] = "Found" =>
                /\ solution = Some(nonce[t])
                /\ nonce[t] \in puzzle
                /\ nonce[t] \in Range(start[t], end[t])
                /\ \A n \in Range(start[t], nonce[t]) :
                      n \notin puzzle /\ n \in Elems(evaluated[t])
    /\ solution # None => \E t \in Spawned : wstate[t] = "Found"

\* the slot holds a nonce that is not the first of the writer's range, in a
\* run of several threads
C18_Witness ==
    /\ cpc = "returned"
    /\ num_cores >= 2
    /\ \E t \in Spawned :
          /\ wstate[t] = "Found"
          /\ solution = Some(nonce[t])
          /\ nonce[t] > start[t]
          /\ Len(evaluated[t]) >= 2

\* C19 (the flag implies a published result): whenever found_flag is true
\* the slot is occupied; a thread that ended Cancelled or LostRace did so
\* with the slot occupied; and when parallel_mine returns u64::MAX every
\* thread has ended Exhausted after evaluating its whole range.
C19_FlagImpliesResult ==
    /\ found_flag => solution # None
    /\ \A t \in Spawned :
          wstate[t] \in {"Cancelled", "LostRace"} => solution # None
    /\ (cpc = "returned" /\ ret = u64_MAX) =>
          \A t \in Spawned :
              /\ wstate[t] = "Exhausted"
              /\ Elems(evaluated[t]) = Range(start[t], end[t])

\* a thread has stopped on the flag while the writer has not yet dropped
\* the guard
C19_Witness ==
    /\ found_flag
    /\ solution # None
    /\ \E t, w \in Spawned :
          /\ wstate[t] = "Cancelled"
          /\ wstate[w] = "Found"
          /\ pc[w] = "return"
          /\ mutex_owner = w

\* C20 (the sentinel is unambiguous, the bounds do not overflow): with
\* W >= 1, N = u64::MAX / W and chunk = N / W, the products i * chunk and
\* (i + 1) * chunk for i < W are at most N, which is at most u64::MAX, so
\* the wrapping products of lines 117 and 121 are the exact ones; every
\* nonce written to the slot is below u64::MAX, and a returned u64::MAX
\* means that the slot was never written.
C20_SentinelUnambiguous ==
    (num_cores >= 1 /\ cpc # "setup") =>
        /\ max_nonce = u64_MAX \div num_cores
        /\ range_per_thread = max_nonce \div num_cores
        /\ max_nonce <= u64_MAX
        /\ \A i \in 0 .. (num_cores - 1) :
              /\ i * range_per_thread <= max_nonce
              /\ (i + 1) * range_per_thread <= max_nonce
              /\ pc[i] # "unspawned" =>
                    /\ start[i] = i * range_per_thread
                    /\ end[i] <= max_nonce
                    /\ nonce[i] <= max_nonce
        /\ \A v \in Elems(slot_writes) : v < u64_MAX
        /\ solution # None => solution[1] < u64_MAX
        /\ (cpc = "returned" /\ ret = u64_MAX) =>
              solution = None /\ slot_writes = << >>

\* u64::MAX itself solves the puzzle, and a run of several threads over
\* non-empty ranges returned a smaller nonce taken from the slot
C20_Witness ==
    /\ cpc = "returned"
    /\ num_cores >= 2
    /\ range_per_thread >= 1
    /\ u64_MAX \in puzzle
    /\ solution # None
    /\ ret < u64_MAX
    /\ ret = max_nonce - 1

=============================================================================
